---- MODULE Spec2Model ----
(***************************************************************************)
(* Cube Labyrinth (src/main.js): the maze generator, the layout builder,   *)
(* the ball integrator and the session handlers, as a state machine.       *)
(*                                                                         *)
(* Lengths are fixed-point integers in units of 1/10000 of a scene unit    *)
(* (Scale); every geometric constant of main.js is exact in that unit.     *)
(* Math.random() is an input: a draw u in 0..RandRes-1 stands for the      *)
(* value u/RandRes of [0,1).                                               *)
(***************************************************************************)
EXTENDS Integers, Sequences, FiniteSets, TLC

\* ------------------------------------------------------------------ bounds
\* Largest grid size whose carve is explored draw by draw (all choices).
MaxN == 3
\* Resolution of a Math.random() draw: u/RandRes for u in 0..RandRes-1.
RandRes == 6
\* Number of sampled random streams (seeds 0..MaxSeed) for whole-call runs.
MaxSeed == 1

\* --------------------------------------------------------------- generator
\* A missing cell: `null` in prev[][] and in dropCell.
NoCell == [x |-> 0 - 1, z |-> 0 - 1]
NoDrop == [ix |-> 0 - 1, iz |-> 0 - 1]

\* Math.floor(Math.random() * k) for the draw u.
randomIndex(u, k) == (u * k) \div RandRes

\* The u of the i-th Math.random() call of the sampled stream `seed`.
randomDraw(seed, i) == (i * i + seed * (2 * i + 1)) % RandRes

Cells(n) == (0 .. n - 1) \X (0 .. n - 1)

\* generateMaze, the state before the carve loop: lines 150-174.
carveInit(n, u1, u2) ==
    LET startX == randomIndex(u1, n)
        startZ == randomIndex(u2, n)
    IN [ n |-> n,
         visited |-> [c \in Cells(n) |-> c = <<startX, startZ>>],
         vertWalls |-> [w \in (0 .. n) \X (0 .. n - 1) |-> TRUE],
         horizWalls |-> [w \in (0 .. n - 1) \X (0 .. n) |-> TRUE],
         stack |-> << [x |-> startX, z |-> startZ] >>,
         startX |-> startX,
         startZ |-> startZ ]

\* neighbors(x, z): the unvisited 4-neighbours, in the order the code pushes.
neighbors(g, x, z) ==
    LET n == g.n
    IN (IF x > 0 /\ ~g.visited[<<x - 1, z>>] THEN << [x |-> x - 1, z |-> z] >> ELSE << >>)
       \o (IF x < n - 1 /\ ~g.visited[<<x + 1, z>>] THEN << [x |-> x + 1, z |-> z] >> ELSE << >>)
       \o (IF z > 0 /\ ~g.visited[<<x, z - 1>>] THEN << [x |-> x, z |-> z - 1] >> ELSE << >>)
       \o (IF z < n - 1 /\ ~g.visited[<<x, z + 1>>] THEN << [x |-> x, z |-> z + 1] >> ELSE << >>)

\* The neighbour list of the cell on top of the stack.
topNeighbors(g) ==
    LET current == g.stack[Len(g.stack)]
    IN neighbors(g, current.x, current.z)

\* "Remove walls between (x,z) and (nx,nz)": lines 198-207.
removeWallBroken(g, x, z, nx, nz) ==
    IF nx = x + 1 THEN [g EXCEPT !.vertWalls[<<x + 1, z>>] = FALSE]
    ELSE IF nx = x - 1 THEN [g EXCEPT !.vertWalls[<<x, z>>] = FALSE]
    ELSE IF nz = z + 1 THEN [g EXCEPT !.horizWalls[<<x, z>>] = FALSE]
    ELSE IF nz = z - 1 THEN [g EXCEPT !.horizWalls[<<x, z>>] = FALSE]
    ELSE g

removeWall(g, x, z, nx, nz) ==
    IF nx = x + 1 THEN [g EXCEPT !.vertWalls[<<x + 1, z>>] = FALSE]
    ELSE IF nx = x - 1 THEN [g EXCEPT !.vertWalls[<<x, z>>] = FALSE]
    ELSE IF nz = z + 1 THEN [g EXCEPT !.horizWalls[<<x, z + 1>>] = FALSE]
    ELSE IF nz = z - 1 THEN [g EXCEPT !.horizWalls[<<x, z>>] = FALSE]
    ELSE g

\* One iteration of the carve loop (lines 185-211) with a non-empty stack;
\* u is the draw used when the top cell has unvisited neighbours.
carveStep(g, u) ==
    LET current == g.stack[Len(g.stack)]
        x == current.x
        z == current.z
        neigh == neighbors(g, x, z)
    IN IF Len(neigh) = 0
       THEN [g EXCEPT !.stack = SubSeq(g.stack, 1, Len(g.stack) - 1)]
       ELSE LET next == neigh[randomIndex(u, Len(neigh)) + 1]
                g1 == removeWall(g, x, z, next.x, next.z)
            IN [g1 EXCEPT !.visited[<<next.x, next.z>>] = TRUE,
                          !.stack = Append(g.stack, [x |-> next.x, z |-> next.z])]

\* The whole carve loop, taking its draws from the stream `seed`, the i-th
\* call of Math.random() next.
RECURSIVE carveLoop(_, _, _)
carveLoop(g, seed, i) ==
    IF Len(g.stack) = 0 THEN g
    ELSE IF Len(topNeighbors(g)) = 0 THEN carveLoop(carveStep(g, 0), seed, i)
    ELSE carveLoop(carveStep(g, randomDraw(seed, i)), seed, i + 1)

\* BFS state before the loop: lines 214-220.
bfsInit(g) ==
    [ dist |-> [c \in Cells(g.n) |-> IF c = <<g.startX, g.startZ>> THEN 0 ELSE 0 - 1],
      prev |-> [c \in Cells(g.n) |-> NoCell],
      queue |-> << [x |-> g.startX, z |-> g.startZ] >>,
      farthest |-> [x |-> g.startX, z |-> g.startZ] ]

\* One of the four neighbour tests of the BFS body: reach (tx,tz) from (x,z)
\* when `open` (in range, no wall) and the target is still unreached.
bfsVisit(b, open, x, z, tx, tz, d) ==
    IF open /\ b.dist[<<tx, tz>>] = 0 - 1
    THEN [b EXCEPT !.dist[<<tx, tz>>] = d + 1,
                   !.prev[<<tx, tz>>] = [x |-> x, z |-> z],
                   !.queue = Append(b.queue, [x |-> tx, z |-> tz])]
    ELSE b

\* `if (d > dist[farthest.x][farthest.z]) farthest = { x, z }`: lines 225-227.
farthestNever(b, x, z, d) == b

updateFarthest(b, x, z, d) ==
    IF d > b.dist[<<b.farthest.x, b.farthest.z>>]
    THEN [b EXCEPT !.farthest = [x |-> x, z |-> z]]
    ELSE b

\* The BFS loop: lines 222-249.
RECURSIVE bfsLoop(_, _)
bfsLoop(g, b) ==
    IF Len(b.queue) = 0 THEN b
    ELSE LET x == Head(b.queue).x
             z == Head(b.queue).z
             n == g.n
             d == b.dist[<<x, z>>]
             b0 == updateFarthest([b EXCEPT !.queue = Tail(b.queue)], x, z, d)
             b1 == bfsVisit(b0, x > 0 /\ ~g.vertWalls[<<x, z>>], x, z, x - 1, z, d)
             b2 == bfsVisit(b1, x < n - 1 /\ ~g.vertWalls[<<x + 1, z>>], x, z, x + 1, z, d)
             b3 == bfsVisit(b2, z > 0 /\ ~g.horizWalls[<<x, z>>], x, z, x, z - 1, d)
             b4 == bfsVisit(b3, z < n - 1 /\ ~g.horizWalls[<<x, z + 1>>], x, z, x, z + 1, d)
         IN bfsLoop(g, b4)

\* The path loop (lines 253-262) before path.reverse(): from (cx,cz) back to
\* the start over prev[][], the start cell pushed last.
pathBackOneStep(g, b, cx, cz) ==
    IF cx = g.startX /\ cz = g.startZ THEN << [x |-> g.startX, z |-> g.startZ] >>
    ELSE << [x |-> cx, z |-> cz], [x |-> g.startX, z |-> g.startZ] >>

RECURSIVE pathBack(_, _, _, _)
pathBack(g, b, cx, cz) ==
    IF cx = g.startX /\ cz = g.startZ THEN << [x |-> g.startX, z |-> g.startZ] >>
    ELSE LET p == b.prev[<<cx, cz>>]
         IN IF p = NoCell
            THEN << [x |-> cx, z |-> cz], [x |-> g.startX, z |-> g.startZ] >>
            ELSE << [x |-> cx, z |-> cz] >> \o pathBack(g, b, p.x, p.z)

reverse(s) == [i \in 1 .. Len(s) |-> s[Len(s) + 1 - i]]

\* Drop selection: lines 266-270 (path is 0-indexed in the code).
dropAtEnd(path) ==
    IF Len(path) >= 3
    THEN [ix |-> path[Len(path)].x, iz |-> path[Len(path)].z]
    ELSE NoDrop

dropAtStart(path) ==
    IF Len(path) >= 3
    THEN [ix |-> path[1].x, iz |-> path[1].z]
    ELSE NoDrop

pickDrop(path) ==
    IF Len(path) >= 3
    THEN LET midIndex == Len(path) \div 2
         IN [ix |-> path[midIndex + 1].x, iz |-> path[midIndex + 1].z]
    ELSE NoDrop

playLevelIndex == 1

\* generateMaze after the carve loop: lines 213-281.  `path` is the local
\* of that name, kept with the returned layout for the path claims.
finishMaze(g) ==
    LET b == bfsLoop(g, bfsInit(g))
        path == reverse(pathBack(g, b, b.farthest.x, b.farthest.z))
        dropCell == pickDrop(path)
        hasDrop == dropCell # NoDrop
        goalLevelIndex == IF hasDrop THEN 0 ELSE playLevelIndex
    IN [ n |-> g.n,
         startCell |-> [ix |-> g.startX, iz |-> g.startZ, levelIndex |-> playLevelIndex],
         goalCell |-> [ix |-> b.farthest.x, iz |-> b.farthest.z, levelIndex |-> goalLevelIndex],
         dropCell |-> dropCell,
         vertWalls |-> g.vertWalls,
         horizWalls |-> g.horizWalls,
         path |-> path ]

\* generateMaze() for cellsPerSide = n, its Math.random() calls answered by
\* the stream `seed`.
generateMaze(n, seed) ==
    finishMaze(carveLoop(carveInit(n, randomDraw(seed, 0), randomDraw(seed, 1)), seed, 2))

\* ---------------------------------------------------------------- geometry
\* Lengths in 1/10000 scene units; velocities in the same unit per second.
cubeSize == 100000
floorThickness == 2500
wallThickness == 600
ballRadius == 4500
\* cubeSize / 2 - 0.7
inner == cubeSize \div 2 - 7000
\* levelYs = [-inner + 2.0, inner - 2.0], indexed here from 1.
levelYs == << 20000 - inner, inner - 20000 >>
\* inner * 2 - 0.8
usableSpan == inner * 2 - 8000
\* floorThickness + ballRadius * 1.1
goalHeight == floorThickness + (ballRadius * 11) \div 10

\* setDifficultyParameters: cellsPerSide of a difficulty.
cellsOf(difficulty) ==
    IF difficulty = "easy" THEN 3
    ELSE IF difficulty = "hard" THEN 6
    ELSE 4

\* cellSize and cellOffset as setDifficultyParameters derives them.
cellSizeOf(n) == usableSpan \div n
cellOffsetOf(n) == (cellSizeOf(n) \div 2) - (usableSpan \div 2)

vec(x, y, z) == [x |-> x, y |-> y, z |-> z]

\* cellToPosition(cell) for the grid of n cells per side.
cellToPosition(n, cell) ==
    vec(cellOffsetOf(n) + cell.ix * cellSizeOf(n),
        levelYs[cell.levelIndex + 1],
        cellOffsetOf(n) + cell.iz * cellSizeOf(n))

\* addWall: the entry pushed on mazeWalls (centre and half extents).
addWall(x, y, z, w, h, d) ==
    [pos |-> vec(x, y, z), half |-> vec(w \div 2, h \div 2, d \div 2)]

\* clearMaze: mazeWalls.length = 0.
clearKeepsWalls(walls) == walls

clearMaze(walls) == << >>

\* The floor loop of rebuildLevel (lines 305-323), in push order; the k-th
\* candidate tile is (li, ix, iz) with k-1 = (li * n + ix) * n + iz.
floorTilesHoleOnBoth(n, dropCell) ==
    LET tile(k) == [li |-> (k - 1) \div (n * n),
                    ix |-> ((k - 1) % (n * n)) \div n,
                    iz |-> (k - 1) % n]
        isHole(t) == /\ dropCell # NoDrop
                     /\ t.ix = dropCell.ix
                     /\ t.iz = dropCell.iz
        kept == SelectSeq([k \in 1 .. 2 * n * n |-> tile(k)], LAMBDA t : ~isHole(t))
    IN [i \in 1 .. Len(kept) |->
          addWall(cellOffsetOf(n) + kept[i].ix * cellSizeOf(n),
                  levelYs[kept[i].li + 1],
                  cellOffsetOf(n) + kept[i].iz * cellSizeOf(n),
                  cellSizeOf(n), floorThickness, cellSizeOf(n))]

floorTiles(n, dropCell) ==
    LET tile(k) == [li |-> (k - 1) \div (n * n),
                    ix |-> ((k - 1) % (n * n)) \div n,
                    iz |-> (k - 1) % n]
        isHole(t) == /\ t.li = playLevelIndex
                     /\ dropCell # NoDrop
                     /\ t.ix = dropCell.ix
                     /\ t.iz = dropCell.iz
        kept == SelectSeq([k \in 1 .. 2 * n * n |-> tile(k)], LAMBDA t : ~isHole(t))
    IN [i \in 1 .. Len(kept) |->
          addWall(cellOffsetOf(n) + kept[i].ix * cellSizeOf(n),
                  levelYs[kept[i].li + 1],
                  cellOffsetOf(n) + kept[i].iz * cellSizeOf(n),
                  cellSizeOf(n), floorThickness, cellSizeOf(n))]

mazeWallY == (levelYs[1] + levelYs[2]) \div 2
\* Math.max(0.5, topFloorY - bottomFloorY + floorThickness)
mazeWallHeight ==
    IF levelYs[2] - levelYs[1] + floorThickness > 5000
    THEN levelYs[2] - levelYs[1] + floorThickness
    ELSE 5000

\* The vertical-wall loop (lines 338-345).
vertPanels(n, vertWalls) ==
    LET slot(k) == <<(k - 1) \div n, (k - 1) % n>>
        kept == SelectSeq([k \in 1 .. (n + 1) * n |-> slot(k)], LAMBDA w : vertWalls[w])
        edgeX0 == cellOffsetOf(n) - cellSizeOf(n) \div 2
    IN [i \in 1 .. Len(kept) |->
          addWall(edgeX0 + kept[i][1] * cellSizeOf(n), mazeWallY,
                  cellOffsetOf(n) + kept[i][2] * cellSizeOf(n),
                  wallThickness, mazeWallHeight, cellSizeOf(n))]

\* The horizontal-wall loop (lines 348-355).
horizPanels(n, horizWalls) ==
    LET slot(k) == <<(k - 1) \div (n + 1), (k - 1) % (n + 1)>>
        kept == SelectSeq([k \in 1 .. n * (n + 1) |-> slot(k)], LAMBDA w : horizWalls[w])
        edgeZ0 == cellOffsetOf(n) - cellSizeOf(n) \div 2
    IN [i \in 1 .. Len(kept) |->
          addWall(cellOffsetOf(n) + kept[i][1] * cellSizeOf(n), mazeWallY,
                  edgeZ0 + kept[i][2] * cellSizeOf(n),
                  cellSizeOf(n), mazeWallHeight, wallThickness)]

\* What rebuildLevel() computes from the layout L that generateMaze returned
\* for cellsPerSide = n (lines 285-356): the layout, the start and goal
\* positions and the obstacles in push order.
levelBuild(n, L) ==
    LET sp == cellToPosition(n, L.startCell)
        gp == cellToPosition(n, L.goalCell)
    IN [ layout |-> L,
         startPos |-> [sp EXCEPT !.y = levelYs[L.startCell.levelIndex + 1]
                                        + floorThickness \div 2
                                        + (ballRadius * 8) \div 10],
         goalPos |-> [gp EXCEPT !.y = levelYs[L.goalCell.levelIndex + 1]
                                      + floorThickness \div 2
                                      + goalHeight \div 2],
         obstacles |-> floorTiles(n, L.dropCell)
                       \o vertPanels(n, L.vertWalls)
                       \o horizPanels(n, L.horizWalls) ]

\* rebuildLevel(), starting from the obstacle list `walls`: clearMaze(),
\* then the pushes of the build.
rebuildLevel(build, walls) ==
    [ layout |-> build.layout,
      startPos |-> build.startPos,
      goalPos |-> build.goalPos,
      mazeWalls |-> clearMaze(walls) \o build.obstacles ]

\* ----------------------------------------------------------------- physics
\* Fixed-point arithmetic: the quotient a/b (b > 0) rounded to the nearest
\* unit, as a floating-point result is rounded to the nearest value.
rdiv(a, b) == (2 * a + b) \div (2 * b)

min2(a, b) == IF a < b THEN a ELSE b
max2(a, b) == IF a > b THEN a ELSE b
abs(a) == IF a < 0 THEN -a ELSE a
\* Math.sign(a) || 1
signOr1(a) == IF a < 0 THEN -1 ELSE 1

\* Math.sqrt on fixed-point values: the largest r with r * r <= a.
RECURSIVE sqrtBetween(_, _, _)
sqrtBetween(a, lo, hi) ==
    IF lo >= hi THEN lo
    ELSE LET mid == (lo + hi + 1) \div 2
         IN IF mid * mid <= a THEN sqrtBetween(a, mid, hi) ELSE sqrtBetween(a, lo, mid - 1)

sqrt(a) == sqrtBetween(a, 0, min2(a, 46340))

\* restitution = 0.35 and damping = 0.995, as numerators over 100 and 1000.
restitutionPct == 35
dampingPerMille == 995
\* |gravityWorld| = 8.0
gravity == 80000
\* Durations in units of 1/120000 s: maxStep = 1/120 s, the frame cap 1/30 s.
ticksPerSecond == 120 * 1000
maxStep == 1000
maxFrameDt == 4000

\* A unit vector is held scaled by `unit` (1.0 in length units).
unit == cubeSize \div 10
noHit == [hit |-> FALSE, normal |-> vec(0, 0, 0), penetration |-> 0]

\* sphereVsAabb(localPos, radius, wall): lines 426-477.
sphereVsAabb(localPos, radius, wall) ==
    LET half == wall.half
        center == wall.pos
        lx == localPos.x - center.x
        ly == localPos.y - center.y
        lz == localPos.z - center.z
        dx == max2(-half.x, min2(lx, half.x))
        dy == max2(-half.y, min2(ly, half.y))
        dz == max2(-half.z, min2(lz, half.z))
        nx == lx - dx
        ny == ly - dy
        nz == lz - dz
        distSq == nx * nx + ny * ny + nz * nz
        \* one offset alone reaches the radius: distSq >= radius * radius
        far == abs(nx) >= radius \/ abs(ny) >= radius \/ abs(nz) >= radius
    IN IF far THEN noHit
       ELSE IF distSq = 0
       THEN LET distToFaceX == half.x - abs(lx)
                distToFaceY == half.y - abs(ly)
                distToFaceZ == half.z - abs(lz)
                useY == distToFaceY < distToFaceX
                minXY == IF useY THEN distToFaceY ELSE distToFaceX
                useZ == distToFaceZ < minXY
                minDist == IF useZ THEN distToFaceZ ELSE minXY
                normal == IF useZ THEN vec(0, 0, unit * signOr1(lz))
                          ELSE IF useY THEN vec(0, unit * signOr1(ly), 0)
                          ELSE vec(unit * signOr1(lx), 0, 0)
            IN IF minDist >= radius THEN noHit
               ELSE [hit |-> TRUE, normal |-> normal, penetration |-> radius - minDist]
       ELSE IF distSq >= radius * radius THEN noHit
       ELSE LET dist == max2(1, sqrt(distSq))
            IN [hit |-> TRUE,
                normal |-> vec(rdiv(nx * unit, dist), rdiv(ny * unit, dist), rdiv(nz * unit, dist)),
                penetration |-> radius - dist]

\* The containment limits of integrateBall: lines 586-599.
outerHalf == cubeSize \div 2 - ballRadius - 1800
mazeHalf == usableSpan \div 2 - (ballRadius * 3) \div 10
limitX == min2(outerHalf, mazeHalf)
limitZ == min2(outerHalf, mazeHalf)
bottomY == levelYs[1] + floorThickness \div 2 - (ballRadius * 4) \div 10
topY == levelYs[2] + floorThickness \div 2 + (ballRadius * 4) \div 10

\* `v *= -restitution`
bounce(v) == rdiv(-(v * restitutionPct), 100)

\* "Collide with outer/maze bounds", one axis at a time: lines 607-629.
clampX(b) ==
    IF b.p.x < -limitX
    THEN [p |-> [b.p EXCEPT !.x = -limitX],
          v |-> IF b.v.x < 0 THEN [b.v EXCEPT !.x = bounce(b.v.x)] ELSE b.v]
    ELSE IF b.p.x > limitX
    THEN [p |-> [b.p EXCEPT !.x = limitX],
          v |-> IF b.v.x > 0 THEN [b.v EXCEPT !.x = bounce(b.v.x)] ELSE b.v]
    ELSE b

clampY(b) ==
    IF b.p.y < bottomY
    THEN [p |-> [b.p EXCEPT !.y = bottomY],
          v |-> IF b.v.y < 0 THEN [b.v EXCEPT !.y = bounce(b.v.y)] ELSE b.v]
    ELSE IF b.p.y > topY
    THEN [p |-> [b.p EXCEPT !.y = topY],
          v |-> IF b.v.y > 0 THEN [b.v EXCEPT !.y = bounce(b.v.y)] ELSE b.v]
    ELSE b

clampZ(b) ==
    IF b.p.z < -limitZ
    THEN [p |-> [b.p EXCEPT !.z = -limitZ],
          v |-> IF b.v.z < 0 THEN [b.v EXCEPT !.z = bounce(b.v.z)] ELSE b.v]
    ELSE IF b.p.z > limitZ
    THEN [p |-> [b.p EXCEPT !.z = limitZ],
          v |-> IF b.v.z > 0 THEN [b.v EXCEPT !.z = bounce(b.v.z)] ELSE b.v]
    ELSE b

clampBounds(b) == clampZ(clampY(clampX(b)))

\* "Reflect velocity along the collision normal": lines 647-651.
reflect(v, normal, vDotN) ==
    IF vDotN < 0
    THEN vec(v.x - rdiv(rdiv((100 + restitutionPct) * vDotN, 100) * normal.x, unit),
             v.y - rdiv(rdiv((100 + restitutionPct) * vDotN, 100) * normal.y, unit),
             v.z - rdiv(rdiv((100 + restitutionPct) * vDotN, 100) * normal.z, unit))
    ELSE v

\* The body of the wall loop once sphereVsAabb has returned res: the push
\* out of the wall and the reflection of the velocity, lines 634-651.
resolveHit(b, res) ==
    IF ~res.hit THEN b
    ELSE [p |-> vec(b.p.x + rdiv(res.normal.x * res.penetration, unit),
                    b.p.y + rdiv(res.normal.y * res.penetration, unit),
                    b.p.z + rdiv(res.normal.z * res.penetration, unit)),
          v |-> reflect(b.v, res.normal,
                        rdiv(b.v.x * res.normal.x + b.v.y * res.normal.y
                             + b.v.z * res.normal.z, unit))]

\* The body of the wall loop for one wall: lines 633-651.
collideWall(b, wall) == resolveHit(b, sphereVsAabb(b.p, ballRadius, wall))

\* `for (const wall of mazeWalls)`: the walls lo..hi in list order (the
\* range is halved so that the evaluation stays shallow).
RECURSIVE collideRange(_, _, _, _)
collideRange(b, walls, lo, hi) ==
    IF lo > hi THEN b
    ELSE IF lo = hi THEN collideWall(b, walls[lo])
    ELSE LET mid == (lo + hi) \div 2
             first == collideRange(b, walls, lo, mid)
         IN IF first = b THEN collideRange(b, walls, mid + 1, hi)
            ELSE collideRange(first, walls, mid + 1, hi)

collideWalls(b, walls) == collideRange(b, walls, 1, Len(walls))

\* "Containment clamp again": lines 655-657.
noReclamp(b) == b

reclamp(b) ==
    [b EXCEPT !.p = vec(max2(-limitX, min2(limitX, b.p.x)),
                        max2(bottomY, min2(topY, b.p.y)),
                        max2(-limitZ, min2(limitZ, b.p.z)))]

\* `localPos.addScaledVector(ballVelocity, stepDt)`: line 604.
moved(b, dt, den) ==
    [b EXCEPT !.p = vec(b.p.x + rdiv(b.v.x * dt, den),
                        b.p.y + rdiv(b.v.y * dt, den),
                        b.p.z + rdiv(b.v.z * dt, den))]

\* `ballVelocity.addScaledVector(tmpGravityLocal, stepDt)`: line 603.
accelerated(b, g, dt, den) ==
    [b EXCEPT !.v = vec(b.v.x + rdiv(g.x * dt, den),
                        b.v.y + rdiv(g.y * dt, den),
                        b.v.z + rdiv(g.z * dt, den))]

\* One sub-step (lines 603-657): stepDt = dt / steps seconds, g the local
\* gravity.
subStep(b, g, dt, steps, walls) ==
    reclamp(collideWalls(clampBounds(moved(accelerated(b, g, dt, steps * ticksPerSecond),
                                           dt, steps * ticksPerSecond)), walls))

RECURSIVE subSteps(_, _, _, _, _, _)
subSteps(b, g, dt, steps, walls, s) ==
    IF s >= steps THEN b
    ELSE LET after == subStep(b, g, dt, steps, walls)
         IN IF after = b THEN subSteps(b, g, dt, steps, walls, s + 1)
            ELSE subSteps(after, g, dt, steps, walls, s + 1)

\* The win test of integrateBall (lines 665-678) for the ball at p, the
\* goal mesh at gpos and the current cellSize.
inGoalWholeCell(p, gpos, cs) ==
    LET dx == p.x - gpos.x
        dz == p.z - gpos.z
        reach == (cs * 50) \div 100
        near == /\ abs(dx) < reach
                /\ abs(dz) < reach
                /\ dx * dx + dz * dz < reach * reach
        yOk == /\ p.y >= gpos.y
               /\ p.y <= gpos.y + floorThickness + (ballRadius * 15) \div 10
    IN yOk /\ near

inGoal(p, gpos, cs) ==
    LET dx == p.x - gpos.x
        dz == p.z - gpos.z
        reach == (cs * 45) \div 100
        \* distSqXZ < horizThreshold; the squares are taken only when both
        \* offsets are below cellSize * 0.45, where the test can still hold.
        near == /\ abs(dx) < reach
                /\ abs(dz) < reach
                /\ dx * dx + dz * dz < reach * reach
        yOk == /\ p.y >= gpos.y
               /\ p.y <= gpos.y + floorThickness + (ballRadius * 15) \div 10
    IN yOk /\ near

\* The goal check with triggerWin (lines 479-486, 664-681): the won flag
\* and the velocity after the check.
winAssigned(won, b, gpos, cs) ==
    [won |-> inGoal(b.p, gpos, cs),
     v |-> IF ~won /\ inGoal(b.p, gpos, cs) THEN vec(0, 0, 0) ELSE b.v]

winCheck(won, b, gpos, cs) ==
    IF ~won /\ inGoal(b.p, gpos, cs)
    THEN [won |-> TRUE, v |-> vec(0, 0, 0)]
    ELSE [won |-> won, v |-> b.v]

\* "Damping": ballVelocity.multiplyScalar(damping), line 661.
damp(b) ==
    [b EXCEPT !.v = vec(rdiv(b.v.x * dampingPerMille, 1000),
                        rdiv(b.v.y * dampingPerMille, 1000),
                        rdiv(b.v.z * dampingPerMille, 1000))]

\* The end of integrateBall: the goal check on the damped ball.
checked(b, w) == [p |-> b.p, v |-> w.v, won |-> w.won]
goalChecked(won, b, gpos, cs) == checked(b, winCheck(won, b, gpos, cs))

\* integrateBall(dt) for the ball b = [p, v]: lines 575-682.
integrateBall(b, won, dt, g, walls, gpos, cs) ==
    goalChecked(won,
                damp(subSteps(b, g, dt, max2(1, (dt + maxStep - 1) \div maxStep), walls, 0)),
                gpos, cs)

\* The orientations of cubeGroup the model tells apart: level, or tilted by
\* atan(3/4) towards +x, -x, +z or -z (rotation.x with rotation.y a quarter
\* turn).  localGravity is gravityWorld under the inverse rotation: line 583.
Orientations == {"flat", "tiltXp", "tiltXn", "tiltZp", "tiltZn"}

localGravity(o) ==
    LET side == (gravity * 6) \div 10
        down == (gravity * 8) \div 10
    IN IF o = "tiltXp" THEN vec(side, -down, 0)
       ELSE IF o = "tiltXn" THEN vec(-side, -down, 0)
       ELSE IF o = "tiltZp" THEN vec(0, -down, side)
       ELSE IF o = "tiltZn" THEN vec(0, -down, -side)
       ELSE vec(0, -gravity, 0)

\* ------------------------------------------------- wall-grid graph (spec 3)
\* Cells a and b are 4-neighbours and the wall entry between them is cleared.
Open(L, a, b) ==
    \/ a[2] = b[2] /\ b[1] = a[1] + 1 /\ ~L.vertWalls[<<a[1] + 1, a[2]>>]
    \/ a[2] = b[2] /\ b[1] = a[1] - 1 /\ ~L.vertWalls[<<a[1], a[2]>>]
    \/ a[1] = b[1] /\ b[2] = a[2] + 1 /\ ~L.horizWalls[<<a[1], a[2] + 1>>]
    \/ a[1] = b[1] /\ b[2] = a[2] - 1 /\ ~L.horizWalls[<<a[1], a[2]>>]

\* Distances from the cells of `seen` (already numbered in d) outwards.
RECURSIVE Layers(_, _, _, _, _)
Layers(L, frontier, seen, d, k) ==
    IF frontier = {} THEN d
    ELSE LET next == {c \in Cells(L.n) \ seen : \E f \in frontier : Open(L, f, c)}
         IN Layers(L, next, seen \cup next,
                   [c \in Cells(L.n) |-> IF c \in next THEN k + 1 ELSE d[c]], k + 1)

\* Graph distance of every cell from src over cleared walls; -1 if unreached.
GraphDist(L, src) ==
    Layers(L, {src}, {src}, [c \in Cells(L.n) |-> IF c = src THEN 0 ELSE 0 - 1], 0)

ClearedWalls(L) ==
    {<<"v", w>> : w \in {w \in DOMAIN L.vertWalls : ~L.vertWalls[w]}}
    \cup {<<"h", w>> : w \in {w \in DOMAIN L.horizWalls : ~L.horizWalls[w]}}

BoundaryIntact(L) ==
    /\ \A iz \in 0 .. L.n - 1 : L.vertWalls[<<0, iz>>] /\ L.vertWalls[<<L.n, iz>>]
    /\ \A ix \in 0 .. L.n - 1 : L.horizWalls[<<ix, 0>>] /\ L.horizWalls[<<ix, L.n>>]

SpanningTree(L) ==
    /\ \A c \in Cells(L.n) : \A e \in Cells(L.n) : GraphDist(L, c)[e] >= 0
    /\ Cardinality(ClearedWalls(L)) = L.n * L.n - 1
    /\ BoundaryIntact(L)

\* ------------------------------------------------------------------- state
VARIABLES
    gameStarted,    \* let gameStarted: the session is running
    cellsPerSide,   \* grid parameters set by setDifficultyParameters
    cellSize,
    cellOffset,
    mazeWalls,      \* the obstacle list, in push order
    startPos,
    goalPos,
    ballPos,        \* ballMesh.position
    goalMeshPos,    \* goalMesh.position
    ballVelocity,
    hasWon,
    cubeRotation,   \* orientation of cubeGroup
    cubeScale,      \* cubeGroup.scale, in percent
    isDragging,
    winVisible,     \* winOverlay has class "visible"
    menuVisible,    \* difficultyOverlay lacks class "hidden"
    layout,         \* what the last generateMaze() call returned
    frames,         \* animation frames since the last level build
    lastDifficulty, \* history: the argument of the latest applyDifficulty
    lastControl,    \* history: the latest of the three button handlers
    gpc,            \* generateMaze explored step by step: position,
    gen,            \*   working state,
    result          \*   returned layout

session == <<gameStarted, cellsPerSide, cellSize, cellOffset, mazeWalls, startPos,
             goalPos, ballPos, goalMeshPos, ballVelocity, hasWon, cubeRotation,
             cubeScale, isDragging, winVisible, menuVisible, layout, frames,
             lastDifficulty, lastControl>>
explorer == <<gpc, gen, result>>
vars == <<session, explorer>>

NoLayout == finishMaze([carveInit(1, 0, 0) EXCEPT !.stack = << >>])

Draws == 0 .. RandRes - 1
Seeds == 0 .. MaxSeed
\* cellsPerSide of the three difficulties: setDifficultyParameters.
Presets == {cellsOf(d) : d \in {"easy", "medium", "hard"}}

\* generateMaze() and the build of its layout for every preset and every
\* sampled stream, computed once.
levels ==
    {[n |-> n, seed |-> seed, build |-> levelBuild(n, generateMaze(n, seed))] :
        n \in Presets, seed \in Seeds}

levelOf(n, seed) == (CHOOSE lv \in levels : lv.n = n /\ lv.seed = seed).build

\* ----------------------------------------------------------------- session
\* setDifficultyParameters(difficulty): lines 112-123.
setDifficultyParameters(difficulty) ==
    /\ cellsPerSide' = cellsOf(difficulty)
    /\ cellSize' = cellSizeOf(cellsOf(difficulty))
    /\ cellOffset' = cellOffsetOf(cellsOf(difficulty))

\* rebuildLevel() under the new grid parameters, generateMaze() drawing
\* from the stream `seed`: sets layout, mazeWalls, startPos, goalPos.
rebuild(seed) ==
    /\ LET r == rebuildLevel(levelOf(cellsPerSide', seed), mazeWalls)
       IN /\ layout' = r.layout
          /\ mazeWalls' = r.mazeWalls
          /\ startPos' = r.startPos
          /\ goalPos' = r.goalPos
    /\ frames' = 0

\* resetLevel(): lines 488-498.
resetLevelMoving(seed) ==
    /\ winVisible' = FALSE
    /\ hasWon' = FALSE
    /\ rebuild(seed)
    /\ ballPos' = startPos'
    /\ goalMeshPos' = goalPos'
    /\ ballVelocity' = ballVelocity

resetLevel(seed) ==
    /\ winVisible' = FALSE
    /\ hasWon' = FALSE
    /\ rebuild(seed)
    /\ ballPos' = startPos'
    /\ goalMeshPos' = goalPos'
    /\ ballVelocity' = vec(0, 0, 0)

\* Module initialisation: lines 9, 106-109, 420, 685, 727-730.
Init ==
    /\ gameStarted = FALSE
    /\ cellsPerSide = 4
    /\ cellSize = cellSizeOf(4)
    /\ cellOffset = cellOffsetOf(4)
    /\ \E seed \in Seeds :
          LET r == rebuildLevel(levelOf(4, seed), << >>)
          IN /\ layout = r.layout
             /\ mazeWalls = r.mazeWalls
             /\ startPos = r.startPos
             /\ goalPos = r.goalPos
    /\ ballPos = startPos
    /\ goalMeshPos = goalPos
    /\ ballVelocity = vec(0, 0, 0)
    /\ hasWon = FALSE
    /\ cubeRotation = "flat"
    /\ cubeScale = 100
    /\ isDragging = FALSE
    /\ winVisible = FALSE
    /\ menuVisible = TRUE
    /\ frames = 0
    /\ lastDifficulty = "none"
    /\ lastControl = "none"
    /\ gpc = "off"
    /\ gen = carveInit(1, 0, 0)
    /\ result = NoLayout

\* difficultySettings[difficulty].scale, in percent: lines 532-536.
scaleOf(difficulty) ==
    IF difficulty = "easy" THEN 80
    ELSE IF difficulty = "hard" THEN 125
    ELSE 100

\* applyDifficulty(difficulty), a click on a difficulty button: 538-564.
applyDifficulty(difficulty, seed) ==
    /\ setDifficultyParameters(difficulty)
    /\ cubeScale' = scaleOf(difficulty)
    /\ resetLevel(seed)
    /\ gameStarted' = TRUE
    /\ menuVisible' = FALSE
    /\ lastDifficulty' = difficulty
    /\ lastControl' = "selectDifficulty"
    /\ UNCHANGED <<cubeRotation, isDragging, explorer>>

SelectDifficulty ==
    \E difficulty \in {"easy", "medium", "hard"} : \E seed \in Seeds :
        applyDifficulty(difficulty, seed)

\* A click on the New level button: lines 500-504.
RequestNewLevel ==
    \E seed \in Seeds :
        /\ UNCHANGED <<gameStarted, cellsPerSide, cellSize, cellOffset, cubeRotation,
                       cubeScale, isDragging, menuVisible, lastDifficulty, explorer>>
        /\ resetLevel(seed)
        /\ lastControl' = "requestNewLevel"

\* restartGame(), a click on the restart button: lines 506-524.
restartKeeps(seed) ==
    /\ cubeRotation' = "flat"
    /\ cubeScale' = 100
    /\ ballVelocity' = vec(0, 0, 0)
    /\ hasWon' = FALSE
    /\ gameStarted' = FALSE
    /\ winVisible' = FALSE
    /\ UNCHANGED <<cellsPerSide, cellSize, cellOffset>>
    /\ rebuild(seed)
    /\ ballPos' = [startPos' EXCEPT !.y = @ + (ballRadius * 4) \div 10]
    /\ goalMeshPos' = [goalPos' EXCEPT !.y = @ + (ballRadius * 4) \div 10]
    /\ menuVisible' = TRUE
    /\ lastControl' = "restart"
    /\ UNCHANGED <<isDragging, lastDifficulty, explorer>>

restartGame(seed) ==
    /\ cubeRotation' = "flat"
    /\ cubeScale' = 100
    /\ ballVelocity' = vec(0, 0, 0)
    /\ hasWon' = FALSE
    /\ gameStarted' = FALSE
    /\ winVisible' = FALSE
    /\ setDifficultyParameters("medium")
    /\ rebuild(seed)
    /\ ballPos' = [startPos' EXCEPT !.y = @ + (ballRadius * 4) \div 10]
    /\ goalMeshPos' = [goalPos' EXCEPT !.y = @ + (ballRadius * 4) \div 10]
    /\ menuVisible' = TRUE
    /\ lastControl' = "restart"
    /\ UNCHANGED <<isDragging, lastDifficulty, explorer>>

Restart == \E seed \in Seeds : restartGame(seed)

\* onPointerDown / onPointerUp: lines 689-693, 707-709.
PointerDown ==
    /\ isDragging' = TRUE
    /\ UNCHANGED <<gameStarted, cellsPerSide, cellSize, cellOffset, mazeWalls, startPos,
                   goalPos, ballPos, goalMeshPos, ballVelocity, hasWon, cubeRotation,
                   cubeScale, winVisible, menuVisible, layout, frames, lastDifficulty,
                   lastControl, explorer>>

PointerUp ==
    /\ isDragging' = FALSE
    /\ UNCHANGED <<gameStarted, cellsPerSide, cellSize, cellOffset, mazeWalls, startPos,
                   goalPos, ballPos, goalMeshPos, ballVelocity, hasWon, cubeRotation,
                   cubeScale, winVisible, menuVisible, layout, frames, lastDifficulty,
                   lastControl, explorer>>

\* onPointerMove(e) turning the cube to orientation o: lines 695-705.
onPointerMove(o) ==
    /\ cubeRotation' = IF isDragging THEN o ELSE cubeRotation
    /\ UNCHANGED <<gameStarted, cellsPerSide, cellSize, cellOffset, mazeWalls, startPos,
                   goalPos, ballPos, goalMeshPos, ballVelocity, hasWon, cubeScale,
                   isDragging, winVisible, menuVisible, layout, frames, lastDifficulty,
                   lastControl, explorer>>

PointerMove == \E o \in Orientations : onPointerMove(o)

\* The ball and the won flag after integrateBall returned b.
integrated(b) ==
    /\ ballPos' = b.p
    /\ ballVelocity' = b.v
    /\ hasWon' = b.won
    /\ winVisible' = (winVisible \/ (b.won /\ ~hasWon))

\* animate(now) with now - lastTime = elapsed: lines 734-747.  The idle spin
\* of 0.0008 rad per frame is below the resolution of Orientations.
animateAlways(elapsed) ==
    /\ integrated(integrateBall([p |-> ballPos, v |-> ballVelocity], hasWon,
                                min2(elapsed, maxFrameDt),
                                localGravity(cubeRotation), mazeWalls,
                                goalMeshPos, cellSize))
    /\ frames' = frames + 1
    /\ UNCHANGED <<gameStarted, cellsPerSide, cellSize, cellOffset, mazeWalls, startPos,
                   goalPos, goalMeshPos, cubeRotation, cubeScale, isDragging,
                   menuVisible, layout, lastDifficulty, lastControl, explorer>>

animate(elapsed) ==
    /\ IF gameStarted
       THEN integrated(integrateBall([p |-> ballPos, v |-> ballVelocity], hasWon,
                                     min2(elapsed, maxFrameDt),
                                     localGravity(cubeRotation), mazeWalls,
                                     goalMeshPos, cellSize))
       ELSE UNCHANGED <<ballPos, ballVelocity, hasWon, winVisible>>
    /\ frames' = frames + 1
    /\ UNCHANGED <<gameStarted, cellsPerSide, cellSize, cellOffset, mazeWalls, startPos,
                   goalPos, goalMeshPos, cubeRotation, cubeScale, isDragging,
                   menuVisible, layout, lastDifficulty, lastControl, explorer>>

\* The frame duration tried under free input (1/60 s, two sub-steps), and
\* the number of frames followed after a level build.
Elapsed == {2000}
MaxFrames == 2

Tick ==
    /\ frames < MaxFrames
    /\ \E elapsed \in Elapsed : animate(elapsed)

Next == SelectDifficulty \/ RequestNewLevel \/ Restart \/ PointerDown \/ PointerUp
        \/ PointerMove \/ Tick

Spec == Init /\ [][Next]_vars

\* -------------------------------------------------------------- the player
\* A player who tilts the cube towards the next cell of the start-to-goal
\* path: the pointer input of a played game.
cellIndex(a) == max2(0, min2(cellsPerSide - 1, (a - (cellOffset - cellSize \div 2)) \div cellSize))

ballCell == [x |-> cellIndex(ballPos.x), z |-> cellIndex(ballPos.z)]

towards(from, to) ==
    IF to.x > from.x THEN "tiltXp"
    ELSE IF to.x < from.x THEN "tiltXn"
    ELSE IF to.z > from.z THEN "tiltZp"
    ELSE IF to.z < from.z THEN "tiltZn"
    ELSE "flat"

\* Level over the hole, back to the hole when past it on the upper level,
\* on towards the goal otherwise; away from the goal again once it is won.
steerAt(path, i) ==
    LET mid == Len(path) \div 2 + 1
        upper == ballPos.y > 0
    IN IF hasWon
       THEN (IF i > 1 THEN towards(path[i], path[i - 1]) ELSE "flat")
       ELSE IF upper /\ i = mid THEN "flat"
       ELSE IF upper /\ i > mid THEN towards(path[i], path[i - 1])
       ELSE IF i < Len(path) THEN towards(path[i], path[i + 1])
       ELSE "flat"

steering ==
    IF \E i \in 1 .. Len(layout.path) : layout.path[i] = ballCell
    THEN steerAt(layout.path, CHOOSE i \in 1 .. Len(layout.path) : layout.path[i] = ballCell)
    ELSE "flat"

\* onPointerMove by that player.
Steer == onPointerMove(steering)

\* Frames of a played game: every frame a stall of 1/20 s, cut to 1/30 s
\* (four sub-steps), the player steering before the frame is integrated.
PlayElapsed == {6000}
PlayFrames == 190

PlayTick ==
    /\ frames < PlayFrames
    /\ cubeRotation = steering
    /\ \E elapsed \in PlayElapsed : animate(elapsed)

PlayNext == SelectDifficulty \/ RequestNewLevel \/ Restart \/ PointerDown \/ PointerUp
            \/ Steer \/ PlayTick

SpecPlay == Init /\ [][PlayNext]_vars

\* ------------------------------------------------ generateMaze, step by step
GenInit ==
    /\ gameStarted = FALSE
    /\ cellsPerSide = 4
    /\ cellSize = cellSizeOf(4)
    /\ cellOffset = cellOffsetOf(4)
    /\ layout = NoLayout
    /\ mazeWalls = << >>
    /\ startPos = vec(0, 0, 0)
    /\ goalPos = vec(0, 0, 0)
    /\ ballPos = vec(0, 0, 0)
    /\ goalMeshPos = vec(0, 0, 0)
    /\ ballVelocity = vec(0, 0, 0)
    /\ hasWon = FALSE
    /\ cubeRotation = "flat"
    /\ cubeScale = 100
    /\ isDragging = FALSE
    /\ winVisible = FALSE
    /\ menuVisible = TRUE
    /\ frames = 0
    /\ lastDifficulty = "none"
    /\ lastControl = "none"
    /\ gpc = "start"
    /\ gen = carveInit(1, 0, 0)
    /\ result = NoLayout

\* Lines 150-174 for a grid size n and the two start draws.
GenStart ==
    /\ gpc = "start"
    /\ \E n \in 2 .. MaxN : \E u1 \in Draws : \E u2 \in Draws :
          gen' = carveInit(n, u1, u2)
    /\ gpc' = "carve"
    /\ UNCHANGED <<result, session>>

\* One iteration of the carve loop, any draw.
GenCarve ==
    /\ gpc = "carve"
    /\ Len(gen.stack) > 0
    /\ \E u \in Draws : gen' = carveStep(gen, u)
    /\ UNCHANGED <<gpc, result, session>>

\* The stack is empty: BFS, path, drop, return.
GenFinish ==
    /\ gpc = "carve"
    /\ Len(gen.stack) = 0
    /\ result' = finishMaze(gen)
    /\ gpc' = "done"
    /\ UNCHANGED <<gen, session>>

\* A whole call at a preset size on a sampled stream.
GenWhole ==
    /\ gpc = "start"
    /\ \E n \in Presets : \E seed \in Seeds : result' = generateMaze(n, seed)
    /\ gpc' = "done"
    /\ UNCHANGED <<gen, session>>

GenNext == GenStart \/ GenCarve \/ GenFinish \/ GenWhole

SpecGen == GenInit /\ [][GenNext]_vars

\* ------------------------------------------------------------------ claims
\* C1: the wall grids returned by generateMaze form a spanning tree: every
\* cell reaches every cell over cleared walls, exactly N*N-1 entries are
\* cleared, and every outer-boundary entry is still true.
C1_SpanningTree == gpc = "done" => SpanningTree(result)

C1_Witness ==
    /\ gpc = "done"
    /\ result.n = 3
    /\ SpanningTree(result)
    /\ \E w \in DOMAIN result.horizWalls : ~result.horizWalls[w]
    /\ \E w \in DOMAIN result.vertWalls : ~result.vertWalls[w]

\* C4: goalCell is at finite breadth-first distance from startCell and no
\* cell of the grid is farther from startCell.
C4_GoalFarthest ==
    gpc = "done" =>
        LET d == GraphDist(result, <<result.startCell.ix, result.startCell.iz>>)
            goal == <<result.goalCell.ix, result.goalCell.iz>>
        IN /\ d[goal] # 0 - 1
           /\ \A c \in Cells(result.n) : d[c] <= d[goal]

C4_Witness ==
    /\ gpc = "done"
    /\ GraphDist(result, <<result.startCell.ix, result.startCell.iz>>)
          [<<result.goalCell.ix, result.goalCell.iz>>] >= 4

\* The reconstructed path is the tree path: from startCell to goalCell,
\* consecutive cells joined by a cleared wall, no cell twice.
IsTreePath(L) ==
    /\ Len(L.path) >= 1
    /\ L.path[1] = [x |-> L.startCell.ix, z |-> L.startCell.iz]
    /\ L.path[Len(L.path)] = [x |-> L.goalCell.ix, z |-> L.goalCell.iz]
    /\ \A i \in 1 .. Len(L.path) - 1 :
          Open(L, <<L.path[i].x, L.path[i].z>>, <<L.path[i + 1].x, L.path[i + 1].z>>)
    /\ \A i \in 1 .. Len(L.path) : \A j \in 1 .. Len(L.path) :
          L.path[i] = L.path[j] => i = j

\* C5: a set dropCell is the cell at index floor(length/2) of the
\* reconstructed start-to-goal path; an unset dropCell means that path has
\* fewer than 3 cells.
C5_DropOnPath ==
    gpc = "done" =>
        /\ IsTreePath(result)
        /\ result.dropCell # NoDrop =>
              /\ \E i \in 1 .. Len(result.path) :
                    /\ i - 1 = Len(result.path) \div 2
                    /\ result.dropCell = [ix |-> result.path[i].x, iz |-> result.path[i].z]
        /\ result.dropCell = NoDrop => Len(result.path) < 3

C5_Witness ==
    /\ gpc = "done"
    /\ result.dropCell # NoDrop
    /\ Len(result.path) >= 5
    /\ result.n = 6

\* The containment bounds of integrateBall hold of the position p.
Contained(p) ==
    /\ abs(p.x) <= limitX
    /\ abs(p.z) <= limitZ
    /\ bottomY <= p.y
    /\ p.y <= topY

\* C2: at the end of every integration tick the ball is within the
\* containment bounds on all three axes: |x| <= limitX, |z| <= limitZ and
\* bottomY <= y <= topY (every frame since the last build was integrated
\* when the session is running and frames > 0).
C2_Contained == (gameStarted /\ frames > 0) => Contained(ballPos)

\* A tick whose wall loop pushed the ball up out of the upper floor and
\* whose re-clamp brought it back to topY.
C2_Witness ==
    /\ gameStarted
    /\ frames > 0
    /\ ballPos.y = topY
    /\ cubeRotation # "flat"

\* The three explicit resets.
ExplicitReset == SelectDifficulty \/ RequestNewLevel \/ Restart

\* C3: once hasWon is true it stays true across animation ticks and pointer
\* events; it becomes false again only by requestNewLevel, selectDifficulty
\* or restart, and the win check never sets it to false.
C3_WonUntilReset ==
    [][ /\ (hasWon /\ ~hasWon') => ExplicitReset
        /\ (hasWon /\ (PlayTick \/ Steer \/ PointerDown \/ PointerUp)) => hasWon' ]_vars

\* The game is won and the ball has left the goal again.
C3_Witness ==
    /\ hasWon
    /\ ~inGoal(ballPos, goalMeshPos, cellSize)
    /\ lastControl = "selectDifficulty"

\* C6: the session is idle initially and after every restart, becomes
\* running only by selectDifficulty and idle only by restart, and a tick
\* taken while idle leaves the ball's position, its velocity and the won
\* flag unchanged.
C6_IdleRunning ==
    /\ ~gameStarted
    /\ [][ /\ Restart => ~gameStarted'
           /\ (~gameStarted /\ gameStarted') => SelectDifficulty
           /\ (gameStarted /\ ~gameStarted') => Restart
           /\ (~gameStarted /\ Tick) => UNCHANGED <<ballPos, ballVelocity, hasWon>> ]_vars

\* Frames were taken while idle after a restart; the ball is where
\* restartGame put it.
C6_Witness ==
    /\ ~gameStarted
    /\ lastControl = "restart"
    /\ frames > 0
    /\ ballPos = [startPos EXCEPT !.y = @ + (ballRadius * 4) \div 10]
    /\ cubeRotation # "flat"

\* C7 as stated: after restart, cellsPerSide, cellSize and cellOffset still
\* equal the values set by the most recent selectDifficulty.
C7_KeepsLastDifficulty ==
    lastDifficulty # "none" =>
        /\ cellsPerSide = cellsOf(lastDifficulty)
        /\ cellSize = cellSizeOf(cellsOf(lastDifficulty))
        /\ cellOffset = cellOffsetOf(cellsOf(lastDifficulty))

\* C7, amended: restart returns the session to idle and sets cellsPerSide,
\* cellSize and cellOffset to the values of the medium preset, whatever
\* difficulty was selected last; they change only at a selectDifficulty or
\* at a restart.
C7_RestartResets ==
    [][ /\ Restart =>
              /\ ~gameStarted'
              /\ cellsPerSide' = cellsOf("medium")
              /\ cellSize' = cellSizeOf(cellsOf("medium"))
              /\ cellOffset' = cellOffsetOf(cellsOf("medium"))
        /\ (<<cellsPerSide, cellSize, cellOffset>>' # <<cellsPerSide, cellSize, cellOffset>>)
              => (SelectDifficulty \/ Restart) ]_vars

\* Restarted after the easy preset was selected: the grid is the medium one.
C7_Witness ==
    /\ lastDifficulty = "easy"
    /\ lastControl = "restart"
    /\ ~gameStarted
    /\ cellsPerSide = 4
    /\ layout.n = 4

\* C8: requestNewLevel leaves cellsPerSide and the idle/running state
\* unchanged, generates a layout of the current grid size, and leaves the
\* won flag false, the velocity zero and the ball at the start position of
\* the new layout.
C8_NewLevel ==
    [][ RequestNewLevel =>
          /\ UNCHANGED <<cellsPerSide, gameStarted>>
          /\ layout'.n = cellsPerSide
          /\ ~hasWon'
          /\ ballVelocity' = vec(0, 0, 0)
          /\ ballPos' = startPos'
          /\ ballPos'.x = cellOffset + layout'.startCell.ix * cellSize
          /\ ballPos'.z = cellOffset + layout'.startCell.iz * cellSize ]_vars

\* A new level of the hard preset was requested while running.
C8_Witness ==
    /\ lastControl = "requestNewLevel"
    /\ gameStarted
    /\ cellsPerSide = 6
    /\ layout.n = 6
    /\ ballPos = startPos
    /\ ballVelocity = vec(0, 0, 0)

\* The boxes a layout calls for: a floor tile for every cell of either
\* level but the drop cell of the play level, a panel for every wall entry
\* that is still true.
FloorBox(n, li, ix, iz) ==
    [pos |-> vec(cellOffsetOf(n) + ix * cellSizeOf(n), levelYs[li + 1],
                 cellOffsetOf(n) + iz * cellSizeOf(n)),
     half |-> vec(cellSizeOf(n) \div 2, floorThickness \div 2, cellSizeOf(n) \div 2)]

IsDrop(L, li, ix, iz) ==
    /\ L.dropCell # NoDrop
    /\ li = playLevelIndex
    /\ L.dropCell.ix = ix
    /\ L.dropCell.iz = iz

FloorBoxes(L) ==
    {FloorBox(L.n, c[1], c[2], c[3]) :
        c \in {c \in (0 .. 1) \X (0 .. L.n - 1) \X (0 .. L.n - 1) :
                  ~IsDrop(L, c[1], c[2], c[3])}}

PanelBoxes(L) ==
    LET n == L.n
        edge0 == cellOffsetOf(n) - cellSizeOf(n) \div 2
    IN {[pos |-> vec(edge0 + w[1] * cellSizeOf(n), mazeWallY,
                     cellOffsetOf(n) + w[2] * cellSizeOf(n)),
         half |-> vec(wallThickness \div 2, mazeWallHeight \div 2, cellSizeOf(n) \div 2)] :
            w \in {w \in DOMAIN L.vertWalls : L.vertWalls[w]}}
       \cup
       {[pos |-> vec(cellOffsetOf(n) + w[1] * cellSizeOf(n), mazeWallY,
                     edge0 + w[2] * cellSizeOf(n)),
         half |-> vec(cellSizeOf(n) \div 2, mazeWallHeight \div 2, wallThickness \div 2)] :
            w \in {w \in DOMAIN L.horizWalls : L.horizWalls[w]}}

\* C9: the obstacle collection a tick reads is exactly the one built from
\* the most recently generated layout, under the current grid size: every
\* box of that layout once, and no box of an earlier layout.
C9_ObstaclesOfLayout ==
    /\ layout.n = cellsPerSide
    /\ {mazeWalls[i] : i \in DOMAIN mazeWalls} = FloorBoxes(layout) \cup PanelBoxes(layout)
    /\ Len(mazeWalls) = Cardinality(FloorBoxes(layout) \cup PanelBoxes(layout))

\* Frames read the obstacles of a level that replaced an earlier one of
\* another grid size.
C9_Witness ==
    /\ lastControl = "requestNewLevel"
    /\ lastDifficulty = "hard"
    /\ frames > 0
    /\ gameStarted
    /\ Len(mazeWalls) = Cardinality(FloorBoxes(layout) \cup PanelBoxes(layout))

\* The floor obstacles of the collection: the boxes of floor thickness.
IsFloor(w) == w.half.y = floorThickness \div 2
FloorIndices == {i \in DOMAIN mazeWalls : IsFloor(mazeWalls[i])}
Floors == {mazeWalls[i] : i \in FloorIndices}

\* C10: after every level build there is exactly one floor obstacle at each
\* cell of each of the two levels, except none at dropCell on the play
\* level: 2*N*N - 1 floor obstacles with a drop, 2*N*N without, and no hole
\* in the lower level.
C10_FloorPerCell ==
    /\ Floors = FloorBoxes(layout)
    /\ Cardinality(FloorIndices) = Cardinality(Floors)
    /\ Cardinality(FloorIndices)
          = IF layout.dropCell # NoDrop THEN 2 * cellsPerSide * cellsPerSide - 1
            ELSE 2 * cellsPerSide * cellsPerSide
    /\ \A ix \in 0 .. cellsPerSide - 1 : \A iz \in 0 .. cellsPerSide - 1 :
          FloorBox(cellsPerSide, 1 - playLevelIndex, ix, iz) \in Floors

\* A build of the easy grid with its hole: 17 floor obstacles, none at the
\* drop cell of the play level.
C10_Witness ==
    /\ lastControl = "selectDifficulty"
    /\ frames = 0
    /\ cellsPerSide = 3
    /\ layout.dropCell # NoDrop
    /\ Cardinality(FloorIndices) = 17
    /\ FloorBox(3, playLevelIndex, layout.dropCell.ix, layout.dropCell.iz) \notin Floors

\* The win test as stated: squared horizontal distance to the goal below
\* (0.45 * cellSize)^2, and y within [goalY, goalY + floorThickness +
\* 1.5 * ballRadius].  0.45 * cellSize is a whole number of units for every
\* preset; the squares are compared only for a ball within that distance on
\* each axis, as a ball farther away on one axis fails the test.
WinTest(p, goal) ==
    /\ abs(p.x - goal.x) * 100 < 45 * cellSize
    /\ abs(p.z - goal.z) * 100 < 45 * cellSize
    /\ (p.x - goal.x) * (p.x - goal.x) + (p.z - goal.z) * (p.z - goal.z)
          < ((45 * cellSize) \div 100) * ((45 * cellSize) \div 100)
    /\ goal.y <= p.y
    /\ p.y * 2 <= goal.y * 2 + floorThickness * 2 + 3 * ballRadius

\* C11: on a tick taken while running with the won flag false, the won
\* flag becomes true if and only if the ball position at the end of the
\* tick passes the win test against the goal position and the current
\* cellSize (a tick is the step that counts a frame).
C11_WinIffTest ==
    [][ (gameStarted /\ ~hasWon /\ frames' = frames + 1)
           => (hasWon' <=> WinTest(ballPos', goalMeshPos)) ]_vars

\* The tick that won: the ball is in the goal on the lower level, stopped
\* by triggerWin.
C11_Witness ==
    /\ hasWon
    /\ gameStarted
    /\ WinTest(ballPos, goalMeshPos)
    /\ ballVelocity = vec(0, 0, 0)
    /\ ballPos.y < 0
    /\ frames > 0

\* C12 as stated: right after selectDifficulty or requestNewLevel and
\* before any tick, the ball's position is within the containment bounds of
\* integrateBall on all three axes.
C12_StartContained ==
    (lastControl \in {"selectDifficulty", "requestNewLevel"} /\ frames = 0)
        => Contained(ballPos)

\* C13: the reconstructed start-to-farthest path has at least 3 cells, so
\* dropCell is never null, goalCell is on level 0 and startCell on level 1.
C13_PathAtLeastThree ==
    gpc = "done" =>
        /\ Len(result.path) >= 3
        /\ result.dropCell # NoDrop
        /\ result.goalCell.levelIndex = 0
        /\ result.startCell.levelIndex = 1

\* The shortest path a carve yields: the 4 cells of the 2 x 2 grid.
C13_Witness ==
    /\ gpc = "done"
    /\ result.n = 2
    /\ Len(result.path) = 4
    /\ result.dropCell # NoDrop
    /\ result.goalCell.levelIndex = 0

\* The floor boxes rebuildLevel pushes for the layout L.
BuiltFloors(L) ==
    {floorTiles(L.n, L.dropCell)[i] : i \in DOMAIN floorTiles(L.n, L.dropCell)}

\* C14: a returned dropCell differs from startCell and from goalCell in
\* (ix, iz), its path index being strictly between the first and the last;
\* so the play level keeps its floor under the start cell and above the
\* goal cell.
C14_DropBetween ==
    (gpc = "done" /\ result.dropCell # NoDrop) =>
        /\ <<result.dropCell.ix, result.dropCell.iz>>
              # <<result.startCell.ix, result.startCell.iz>>
        /\ <<result.dropCell.ix, result.dropCell.iz>>
              # <<result.goalCell.ix, result.goalCell.iz>>
        /\ \E i \in 2 .. Len(result.path) - 1 :
              result.dropCell = [ix |-> result.path[i].x, iz |-> result.path[i].z]
        /\ FloorBox(result.n, playLevelIndex, result.startCell.ix, result.startCell.iz)
              \in BuiltFloors(result)
        /\ FloorBox(result.n, playLevelIndex, result.goalCell.ix, result.goalCell.iz)
              \in BuiltFloors(result)

\* A drop next to the goal: index 2 of a 4-cell path, its tile skipped.
C14_Witness ==
    /\ gpc = "done"
    /\ result.dropCell # NoDrop
    /\ Len(result.path) = 4
    /\ result.dropCell = [ix |-> result.path[3].x, iz |-> result.path[3].z]
    /\ FloorBox(result.n, playLevelIndex, result.dropCell.ix, result.dropCell.iz)
          \notin BuiltFloors(result)

====
